---- MODULE Spec2Model ----
(***************************************************************************)
(* SVPV evidence aggregation: svpv/sam.py (SamEntry, DepthStats,           *)
(* AlignStats) and svpv/vcf.py (VCFManager, SV, BND_SV, BNDs, BND_Event).  *)
(*                                                                         *)
(* The module holds several specifications over one set of variables, one  *)
(* per class under verification.  A specification leaves the variables of  *)
(* the other classes at their initial values.                              *)
(*   Spec       AlignStats.process over a stream of alignment records      *)
(*   SpecDepth  DepthStats.set_depths / DepthStats.convert_depths          *)
(*   SpecEvent  BND_Event.__init__ on a list of breakends and a reordering *)
(*   SpecBNDs   BNDs.add_BND per breakend record, then BNDs.get_events     *)
(*   SpecGroups BNDs.get_events on event-id groups and pending calls      *)
(*   SpecVCF    VCFManager.set_svs on a stream, then one query or filter  *)
(*   SpecCigar  SamEntry.get_aligned_pos on one CIGAR text                *)
(*   SpecSam    AlignStats.get_sam_stats over the lines of samtools view   *)
(***************************************************************************)
EXTENDS Integers, Sequences, FiniteSets, TLC

VARIABLES
    \* ---- AlignStats (sam.py 164-258) ----
    align,          \* the AlignStats object: align[idx] holds, for scheme idx,
                    \*   a = aln_stats[idx][bin][col]          (sam.py 188)
                    \*   d = depth_stats[idx].depths[bin][tier] (sam.py 187)
                    \*   f = fwd_inserts[idx][bin], a list      (sam.py 189,192)
                    \*   r = rvs_inserts[idx][bin], a list      (sam.py 190,193)
    sam_entry,      \* <<>> or <<e>>: the record handed to the last process()
    n_records,      \* number of process() calls made so far
    \* ---- DepthStats (sam.py 129-161) ----
    depth_bins,     \* DepthStats.bins
    depths,         \* DepthStats.depths: the numerators of the stored array
    depths_den,     \* common denominator of the stored array (1 = counts)
    depths_dtype,   \* numpy dtype of DepthStats.depths
    bedcov,         \* the three SAMtools.bedcov outputs of the last set_depths
    depth_call,     \* outcome of the last DepthStats call
    n_converts,     \* number of convert_depths calls that returned normally
    \* ---- BND_Event (vcf.py 469-488) ----
    ev_bnds,        \* the list handed to BND_Event(...)
    ev_perm,        \* the same breakends in another order
    ev,             \* outcome of BND_Event(ev_bnds)
    ev2,            \* outcome of BND_Event(ev_perm)
    ev_pc,          \* "none" | "built"
    \* ---- BNDs (vcf.py 393-465) ----
    bnds,           \* the BNDs object: events, non_events, BNDs, mates, pairs
    calls,          \* the BND_SV objects in order of creation, each with its
                    \* MATE and BND_Event back-references (0 = None)
    bnd_events,     \* the list get_events returned
    bnds_pc,        \* "adding" | "resolved"
    \* ---- VCFManager (vcf.py 12-229) ----
    vcf_lines,      \* the record lines BCFtools.get_SV_sites hands to set_svs
    SVs,            \* self.SVs: chrom -> dict (in insertion order) pos -> list
    positions,      \* self.positions: chrom -> ascending list of positions
    count,          \* self.count
    vcf_call,       \* the last call on the object, its arguments and outcome
    vcf_pc,         \* "new" | "ready" | "failed" | "called"
    \* ---- SamEntry on CIGAR text, AlignStats.get_sam_stats (sam.py 33-58, 315-336)
    cigar_in,       \* <<>> or <<[pos, cigar]>>: the arguments of the last call
    cigar_out,      \* <<>> or <<outcome of get_aligned_pos>>
    sam_line,       \* <<>> or <<line>>: the last line get_sam_stats read
    n_lines,        \* number of lines get_sam_stats has read
    sam_pc          \* "reading" | "aborted": an exception left get_sam_stats

vars == <<align, sam_entry, n_records,
          depth_bins, depths, depths_den, depths_dtype, bedcov, depth_call, n_converts,
          ev_bnds, ev_perm, ev, ev2, ev_pc,
          bnds, calls, bnd_events, bnds_pc,
          vcf_lines, SVs, positions, count, vcf_call, vcf_pc,
          cigar_in, cigar_out, sam_line, n_lines, sam_pc>>

eventVars == <<ev_bnds, ev_perm, ev, ev2, ev_pc>>
bndsVars == <<bnds, calls, bnd_events, bnds_pc>>
vcfVars == <<vcf_lines, SVs, positions, count, vcf_call, vcf_pc>>
samVars == <<cigar_in, cigar_out, sam_line, n_lines, sam_pc>>

alignVars == <<align, sam_entry, n_records>>

aln_stats == [idx \in DOMAIN align |-> align[idx].a]
aln_depths == [idx \in DOMAIN align |-> align[idx].d]
fwd_inserts == [idx \in DOMAIN align |-> align[idx].f]
rvs_inserts == [idx \in DOMAIN align |-> align[idx].r]
depthVars == <<depth_bins, depths, depths_den, depths_dtype, bedcov, depth_call, n_converts>>

(***************************************************************************)
(* Bounds                                                                  *)
(***************************************************************************)
MaxRecords == 2         \* alignment records processed per run
MaxConverts == 2        \* convert_depths calls per run
MaxDepthBins == 3       \* bins of the DepthStats binning scheme
MaxGroup == 3           \* breakends in a list handed to BND_Event
MaxAdds == 3            \* breakend records added to a BNDs object
MaxCalls == 5           \* breakend records added in event-id groups
MaxLines == 3           \* record lines of the stream set_svs reads
MaxOps == 3             \* operations of a CIGAR between its clips
MaxSamLines == 3        \* lines get_sam_stats reads

(***************************************************************************)
(* SamEntry: flag bits and predicates                                      *)
(***************************************************************************)
mate_unmapped == 8
read_reverse == 16
mate_reverse == 32
secondary == 256
supplementary == 2048

\* flag & bit, as a truth value (flags are np.uint16)
has_flag(flag, bit) == ((flag % 65536) \div bit) % 2 = 1

is_rvs(e) == has_flag(e.flag, read_reverse)

has_unmapped_mate(e) == has_flag(e.flag, mate_unmapped)

mate_same_strand(e) ==
    \/ (has_flag(e.flag, read_reverse) /\ has_flag(e.flag, mate_reverse))
    \/ (~has_flag(e.flag, read_reverse) /\ ~has_flag(e.flag, mate_reverse))

is_inverted(e) ==
    IF ~has_flag(e.flag, read_reverse)
    THEN e.tlen < 0
    ELSE e.tlen > 0

\* get_num_clipped(): the sum of the clip groups of the CIGAR, carried by the
\* entry as num_clipped
get_num_clipped(e) == e.num_clipped

(***************************************************************************)
(* SamEntry.get_aligned_pos and get_num_clipped on the CIGAR text: a       *)
(* sequence of characters                                                  *)
(***************************************************************************)
Digits == <<"0", "1", "2", "3", "4", "5", "6", "7", "8", "9">>

isdigit(c) == \E k \in 1..10 : Digits[k] = c

digit_value(c) == (CHOOSE k \in 1..10 : Digits[k] = c) - 1

all_digits(w, i, j) == \A k \in i..j : isdigit(w[k])

\* int(text) of a non-empty run of digits
RECURSIVE int(_)
int(w) ==
    IF Len(w) = 1 THEN digit_value(w[1])
    ELSE 10 * int(SubSeq(w, 1, Len(w) - 1)) + digit_value(w[Len(w)])

\* ((?P<g>[0-9]+)letter)? on w[i..j-1]: absent (i = j) or digits and the letter
clip_group(w, i, j, letter) ==
    \/ i = j
    \/ j - i >= 2 /\ all_digits(w, i, j - 2) /\ w[j - 1] = letter

\* the text captured by the group: <<>> (None) or the digits
clip_capture(w, i, j) == IF i = j THEN <<>> ELSE SubSeq(w, i, j - 2)

\* ([0-9]+[^HS])* on w[i..j-1]
RECURSIVE op_groups(_, _, _)
op_groups(w, i, j) ==
    \/ i = j
    \/ \E k \in (i + 1)..(j - 1) :
          /\ all_digits(w, i, k - 1)
          /\ w[k] \notin {"H", "S"}
          /\ op_groups(w, k + 1, j)

\* re.search(cigar_clip, cigar): the matches of
\* ^(LH H)?(LS S)?([0-9]+[^HS])+(RS S)?(RH H)?$ as groupdicts; no match: {}
cigar_clip(w) ==
    LET n == Len(w) + 1
    IN  UNION { UNION { UNION {
          { [LH |-> clip_capture(w, 1, t1), LS |-> clip_capture(w, t1, t2),
             RS |-> clip_capture(w, t3, t4), RH |-> clip_capture(w, t4, n)] :
            t3 \in { x \in (t2 + 1)..t4 :
                       clip_group(w, x, t4, "S") /\ op_groups(w, t2, x) } } :
          t2 \in { x \in t1..t4 : clip_group(w, t1, x, "S") } } :
          t4 \in { x \in t1..n : clip_group(w, x, n, "H") } } :
          t1 \in { x \in 1..n : clip_group(w, 1, x, "H") } }

\* counts the insertions as well
cigar_ref_chars_ins(c) == c \in {"M", "D", "X", "=", "N", "I"}

\* re.match(cigar_ref_chars, c)
cigar_ref_chars(c) == c \in {"M", "D", "X", "=", "N"}

\* lines 45-52: the loop over the characters; st = [num_aligned, num_str]
RECURSIVE aligned_loop(_, _, _)
aligned_loop(w, k, st) ==
    IF k > Len(w) THEN st.num_aligned
    ELSE IF isdigit(w[k])
    THEN aligned_loop(w, k + 1, [st EXCEPT !.num_str = Append(@, w[k])])
    ELSE IF cigar_ref_chars(w[k])
    THEN aligned_loop(w, k + 1, [num_aligned |-> st.num_aligned + int(st.num_str),
                                 num_str |-> <<>>])
    ELSE aligned_loop(w, k + 1, [st EXCEPT !.num_str = <<>>])

\* get_aligned_pos (lines 43-58): <<left, right>>, or AttributeError when
\* re.search returned None (line 44)
get_aligned_pos(pos, cigar) ==
    IF cigar_clip(cigar) = {}
    THEN [raised |-> TRUE, left |-> 0, right |-> 0]
    ELSE LET clipped == CHOOSE m \in cigar_clip(cigar) : TRUE
             num_aligned == aligned_loop(cigar, 1, [num_aligned |-> 0, num_str |-> <<>>])
             left == IF clipped.LS # <<>> THEN pos + int(clipped.LS) ELSE pos
         IN  [raised |-> FALSE, left |-> left, right |-> left + num_aligned]

\* get_num_clipped (lines 109-117) on the CIGAR text
num_clipped_of(cigar) ==
    LET matches == CHOOSE m \in cigar_clip(cigar) : TRUE
        val(g) == IF g # <<>> THEN int(g) ELSE 0
    IN  val(matches.LH) + val(matches.LS) + val(matches.RS) + val(matches.RH)

\* the state no alignment line has been read in
SamIdle ==
    /\ cigar_in = <<>>
    /\ cigar_out = <<>>
    /\ sam_line = <<>>
    /\ n_lines = 0
    /\ sam_pc = "reading"

(***************************************************************************)
(* Bins.get_bin_coverage: a record [chrom, start, size, num] covering      *)
(* [start, start + size*num).                                              *)
(***************************************************************************)
NoCov == <<>>

bin_index_of(bins, p) == (p - bins.start) \div bins.size

in_region(bins, p) == bins.start <= p /\ p < bins.start + bins.size * bins.num

\* <<>> (None) or << <<left bin, bases>>, <<right bin, bases>> >>
get_bin_coverage(bins, left, right) ==
    IF ~in_region(bins, left) \/ ~in_region(bins, right) THEN NoCov
    ELSE LET lb == bin_index_of(bins, left)
             rb == bin_index_of(bins, right)
         IN  IF lb = rb
             THEN << <<lb, right - left>>, <<rb, 0>> >>
             ELSE << <<lb, bins.start + (lb + 1) * bins.size - left>>,
                     <<rb, right - (bins.start + rb * bins.size)>> >>

(***************************************************************************)
(* DepthStats / AlignStats column indices                                  *)
(***************************************************************************)
TOTAL == 0
MAPQLTT == 1
MAPQ0 == 2

READS == 0
ORPHANED == 1
INVERTED == 2
SAMESTRAND == 3
SECONDARY == 4
SUPPLEMENTARY == 5
CLIPPED == 6
DIFFMOL == 7

DepthCols == 0..2
AlnCols == 0..7

mapq_thresh == 30
clip_thresh == 1

\* the binning schemes registered with the AlignStats (bkpt_bins)
bkpt_bins == << [chrom |-> "1", start |-> 100, size |-> 4, num |-> 3],
                [chrom |-> "1", start |-> 104, size |-> 2, num |-> 2] >>

Schemes == DOMAIN bkpt_bins

BinsOf(idx) == 0..(bkpt_bins[idx].num - 1)

(***************************************************************************)
(* AlignStats.add_to_depth / add_to_aln_stats                              *)
(***************************************************************************)
add_to_depth(d, bins, coverage, cols) ==
    [i \in DOMAIN d |-> [j \in DepthCols |->
        IF j \in cols
        THEN d[i][j]
             + (IF i = coverage[1][1] THEN coverage[1][2] ELSE 0)
             + (IF i = coverage[2][1] THEN coverage[2][2] ELSE 0)
             + (IF coverage[1][1] < i /\ i < coverage[2][1] THEN bins.size ELSE 0)
        ELSE d[i][j]]]

add_to_aln_stats_skip(a, coverage, cols) ==
    [i \in DOMAIN a |-> [j \in AlnCols |->
        IF coverage[1][1] <= i /\ i < coverage[2][1] /\ j \in cols
        THEN a[i][j] + 1 ELSE a[i][j]]]

add_to_aln_stats(a, coverage, cols) ==
    [i \in DOMAIN a |-> [j \in AlnCols |->
        IF coverage[1][1] <= i /\ i <= coverage[2][1] /\ j \in cols
        THEN a[i][j] + 1 ELSE a[i][j]]]

(***************************************************************************)
(* AlignStats.process: one pass of the loop body for scheme idx            *)
(***************************************************************************)
depth_cols(e) ==
    {TOTAL} \cup (IF e.mapQ <= mapq_thresh
                  THEN (IF e.mapQ = 0 THEN {MAPQ0} ELSE {MAPQLTT})
                  ELSE {})

\* the evidence column of the mate-based if/elif chain ({} when the chain
\* reaches the correctly oriented branch)
category_cols_nopriority(e) ==
    (IF has_unmapped_mate(e) THEN {ORPHANED} ELSE {})
    \cup (IF e.mate_diff_molecule THEN {DIFFMOL} ELSE {})
    \cup (IF ~has_unmapped_mate(e) /\ ~e.mate_diff_molecule /\ mate_same_strand(e)
          THEN {SAMESTRAND} ELSE {})
    \cup (IF ~has_unmapped_mate(e) /\ ~e.mate_diff_molecule /\ ~mate_same_strand(e)
             /\ is_inverted(e)
          THEN {INVERTED} ELSE {})

category_cols(e) ==
    IF has_unmapped_mate(e) THEN {ORPHANED}
    ELSE IF e.mate_diff_molecule THEN {DIFFMOL}
    ELSE IF mate_same_strand(e) THEN {SAMESTRAND}
    ELSE IF is_inverted(e) THEN {INVERTED}
    ELSE {}

aln_cols(e) ==
    {READS}
    \cup (IF has_flag(e.flag, secondary) THEN {SECONDARY} ELSE {})
    \cup (IF has_flag(e.flag, supplementary) THEN {SUPPLEMENTARY} ELSE {})
    \cup (IF get_num_clipped(e) >= clip_thresh THEN {CLIPPED} ELSE {})
    \cup category_cols(e)

\* the else branch of line 243 was reached and its filter passed
records_insert(e) ==
    /\ category_cols(e) = {}
    /\ ~(e.tlen = 0) /\ e.mapQ > mapq_thresh

\* the value appended to the reverse list (line 252)
rvs_insert_value(e) == -1 * e.tlen

\* the value appended to the forward list (line 257)
fwd_insert_value(e) == e.tlen

ins_cov_left(bins, e) == get_bin_coverage(bins, e.left, e.left)

\* the coverage looked up for the insert size (lines 249, 254)
ins_cov(bins, e) ==
    IF is_rvs(e) THEN get_bin_coverage(bins, e.right, e.right)
    ELSE get_bin_coverage(bins, e.left, e.left)

append_at(lists, b, v) == [lists EXCEPT ![b] = Append(@, v)]

\* State of scheme idx after the loop body: a record of the four structures.
process_scheme(idx, e, a, d, f, r) ==
    LET bins == bkpt_bins[idx]
        cov  == get_bin_coverage(bins, e.left, e.right)
        same == [a |-> a, d |-> d, f |-> f, r |-> r]
    IN  IF cov = NoCov THEN same
        ELSE LET d2 == add_to_depth(d, bins, cov, depth_cols(e))
                 a2 == add_to_aln_stats(a, cov, aln_cols(e))
             IN  IF records_insert(e)
                 THEN LET ic == ins_cov(bins, e)
                      IN  IF ic = NoCov
                          THEN [a |-> a, d |-> d2, f |-> f, r |-> r]
                          ELSE IF is_rvs(e)
                          THEN [a |-> a2, d |-> d2, f |-> f,
                                r |-> append_at(r, ic[2][1], rvs_insert_value(e))]
                          ELSE [a |-> a2, d |-> d2,
                                f |-> append_at(f, ic[1][1], fwd_insert_value(e)),
                                r |-> r]
                 ELSE [a |-> a2, d |-> d2, f |-> f, r |-> r]

(***************************************************************************)
(* The alignment records of the stream (SamEntry after construction)       *)
(***************************************************************************)
FlagSet == {32, 16, 48 + 256, 8 + 2048}
TlenSet == {-7, 0, 7}
MapQSet == {0, 30, 31}
\* <<left, right, num_clipped>>: inside scheme 1 only (its bins 0..2); inside
\* both schemes (scheme 1 bin 1, scheme 2 bins 0..1)
SpanSet == {<<101, 110, 0>>, <<105, 107, 2>>}

Entries ==
    { e \in [flag : FlagSet, mate_diff_molecule : BOOLEAN, mapQ : MapQSet,
             tlen : TlenSet, span : SpanSet] :
        /\ e.mate_diff_molecule => e.flag # 16
        \* process never reads the template length of a same-strand or an
        \* orphaned record: these carry the one is_inverted would accept
        /\ e.flag = 48 + 256 => e.tlen = 7
        /\ e.flag = 8 + 2048 => e.tlen = -7 }

\* records whose left end lies before every registered region
Uncovered ==
    [flag : {32, 16}, mate_diff_molecule : {FALSE}, mapQ : {31}, tlen : {-7, 7},
     span : {<<98, 103, 0>>}]

\* SamEntry after construction: left, right and the clipped base count are
\* derived from POS and CIGAR
SamEntry(e) ==
    [flag |-> e.flag, mate_diff_molecule |-> e.mate_diff_molecule, mapQ |-> e.mapQ,
     tlen |-> e.tlen, left |-> e.span[1], right |-> e.span[2],
     num_clipped |-> e.span[3]]

SamEntries == { SamEntry(e) : e \in Entries \cup Uncovered }

(***************************************************************************)
(* BND_SV records and BND_Event.__init__                                   *)
(***************************************************************************)
None == "None"

delta == 20
max_loci == 2

is_proximal(loci, bnd) ==
    \E k \in 1..Len(loci) :
        /\ bnd.chrom = loci[k][1]
        /\ loci[k][2] - delta <= bnd.pos /\ bnd.pos <= loci[k][2] + delta

can_add_locus_le(loci) == Len(loci) <= max_loci

\* line 482
can_add_locus(loci) == Len(loci) < max_loci

\* The loop of lines 473-488 from member k on.  visited counts the members
\* whose BND_Event back-reference was set (line 474) before the loop ended.
RECURSIVE event_loop(_, _, _)
event_loop(members, k, loci) ==
    IF k > Len(members)
    THEN [loci |-> loci, raised |-> FALSE, visited |-> Len(members)]
    ELSE LET bnd == members[k]
         IN  IF loci # <<>>
             THEN IF ~is_proximal(loci, bnd)
                  THEN IF can_add_locus(loci)
                       THEN event_loop(members, k + 1,
                                       Append(loci, <<bnd.chrom, bnd.pos>>))
                       ELSE [loci |-> loci, raised |-> TRUE, visited |-> k]
                  ELSE event_loop(members, k + 1, loci)
             ELSE event_loop(members, k + 1, << <<bnd.chrom, bnd.pos>> >>)

BND_Event(members) == event_loop(members, 1, <<>>)

\* BND_SV with the fields BND_Event and BNDs read
BND_SV(id, locus, mate_id, pair_id, event_id) ==
    [id |-> id, chrom |-> locus[1], pos |-> locus[2], mate_id |-> mate_id,
     pair_id |-> pair_id, event_id |-> event_id]

\* the state BND_Event is not being exercised in
EventIdle ==
    /\ ev_bnds = <<>>
    /\ ev_perm = <<>>
    /\ ev = BND_Event(<<>>)
    /\ ev2 = BND_Event(<<>>)
    /\ ev_pc = "none"

(***************************************************************************)
(* BNDs: __init__, add_BND, pop_non_event, get_events                      *)
(***************************************************************************)
\* dict assignment d[k] = v
dict_set(d, k, v) == (k :> v) @@ d

\* BNDs.__init__ (lines 394-402); events keeps the insertion order of its keys
BNDsNew ==
    [events |-> <<>>, non_events |-> {}, BNDs |-> <<>>, mates |-> <<>>,
     pairs |-> <<>>]

BNDsInit ==
    /\ bnds = BNDsNew
    /\ calls = <<>>
    /\ bnd_events = <<>>
    /\ bnds_pc = "adding"

\* line 409: `bnd_sv not in self.events[...]` looks a BND_SV object up in a
\* list of id strings; an object without __eq__ equals none of them
sv_in_id_list(sv, ids) == FALSE

event_index(events, event_id) ==
    CHOOSE k \in 1..Len(events) : events[k].event_id = event_id

\* lines 407-414
add_to_events(B, sv) ==
    IF sv.event_id # None
    THEN IF \E k \in 1..Len(B.events) : B.events[k].event_id = sv.event_id
         THEN LET k == event_index(B.events, sv.event_id)
              IN  IF ~sv_in_id_list(sv, B.events[k].ids)
                  THEN [B EXCEPT !.events[k].ids = Append(@, sv.id)]
                  ELSE B
         ELSE [B EXCEPT !.events =
                   Append(@, [event_id |-> sv.event_id, ids |-> <<sv.id>>])]
    ELSE [B EXCEPT !.non_events = @ \cup {sv.id}]

\* lines 416-419
link_mate(B, sv) ==
    IF sv.mate_id # None /\ sv.mate_id \in DOMAIN B.BNDs
    THEN [B EXCEPT !.mates = dict_set(dict_set(@, sv.id, sv.mate_id),
                                      sv.mate_id, sv.id)]
    ELSE B

\* lines 423-426: the pair link is written into self.mates
link_pair(B, sv) ==
    IF sv.pair_id # None /\ sv.pair_id \in DOMAIN B.BNDs
    THEN [B EXCEPT !.mates = dict_set(dict_set(@, sv.id, sv.pair_id),
                                      sv.pair_id, sv.id)]
    ELSE B

\* the BNDs object after add_BND(sv), sv being object number ix
add_BND_bnds(B, sv, ix) ==
    LET B1 == [B EXCEPT !.BNDs = dict_set(@, sv.id, ix)]
    IN  link_pair(link_mate(add_to_events(B1, sv), sv), sv)

\* the BND_SV objects after add_BND(sv): the new object, and the MATE
\* references of lines 421-422
add_BND_calls(B, heap, sv) ==
    LET ix  == Len(heap) + 1
        B1  == [B EXCEPT !.BNDs = dict_set(@, sv.id, ix)]
        new == Append(heap, [sv |-> sv, MATE |-> 0, BND_Event |-> 0])
    IN  IF sv.mate_id # None /\ sv.mate_id \in DOMAIN B1.BNDs
        THEN LET m == B1.BNDs[sv.mate_id]
             IN  [[new EXCEPT ![ix].MATE = m] EXCEPT ![m].MATE = ix]
        ELSE new

\* bnds.append(id)
pop_append(r, id) == [r EXCEPT !.bnds = Append(@, id)]

pop_append_keep_pending(r, id) == [r EXCEPT !.bnds = Append(@, id)]

\* bnds.append(id); self.non_events.discard(bnds[-1])
pop_append_discard(r, id) ==
    [bnds |-> Append(r.bnds, id), non_events |-> r.non_events \ {id}]

last(q) == q[Len(q)]

in_list(x, q) == \E k \in 1..Len(q) : q[k] = x

\* pop_non_event (lines 430-447) when set.pop() hands out ne: the group and
\* the pending set left behind
pop_non_event(B, ne) ==
    LET r0 == [bnds |-> <<ne>>, non_events |-> B.non_events \ {ne}]
        r1 == IF ne \in DOMAIN B.mates
              THEN LET a == pop_append_discard(r0, B.mates[ne])
                   IN  IF last(a.bnds) \in DOMAIN B.pairs
                          /\ ~in_list(B.pairs[last(a.bnds)], a.bnds)
                       THEN pop_append_discard(a, B.pairs[last(a.bnds)])
                       ELSE a
              ELSE r0
    IN  IF ne \in DOMAIN B.pairs
        THEN LET b == IF ~in_list(B.pairs[ne], r1.bnds)
                      THEN pop_append(r1, B.pairs[ne])
                      ELSE r1
             IN  IF last(b.bnds) \in DOMAIN B.mates
                    /\ ~in_list(B.mates[last(b.bnds)], b.bnds)
                 THEN pop_append_discard(b, B.mates[last(b.bnds)])
                 ELSE b
        ELSE r1

try_event_abort(B, R, ids) ==
    LET ixs == [j \in 1..Len(ids) |-> B.BNDs[ids[j]]]
        res == BND_Event([j \in 1..Len(ixs) |-> R.heap[ixs[j]].sv])
        eid == R.k + 1
    IN  [heap |-> R.heap,
         out  |-> IF res.raised THEN <<>>
                  ELSE Append(R.out, [eid |-> eid, bnds |-> ixs, loci |-> res.loci]),
         k    |-> eid]

\* One BND_Event(...) attempt inside get_events on the ids of a group.
\* R = [heap, out, k]: the objects, the events appended so far and the
\* number of BND_Event objects created so far.
try_event(B, R, ids) ==
    LET ixs == [j \in 1..Len(ids) |-> B.BNDs[ids[j]]]
        res == BND_Event([j \in 1..Len(ixs) |-> R.heap[ixs[j]].sv])
        eid == R.k + 1
    IN  [heap |-> [x \in 1..Len(R.heap) |->
                     IF \E j \in 1..res.visited : ixs[j] = x
                     THEN [R.heap[x] EXCEPT !.BND_Event = eid]
                     ELSE R.heap[x]],
         out  |-> IF res.raised THEN R.out
                  ELSE Append(R.out, [eid |-> eid, bnds |-> ixs, loci |-> res.loci]),
         k    |-> eid]

\* lines 452-456: the groups that carry an event id, in dict order
RECURSIVE events_loop(_, _, _)
events_loop(B, R, k) ==
    IF k > Len(B.events) THEN R
    ELSE events_loop(B, try_event(B, R, B.events[k].ids), k + 1)

\* lines 457-463: every way the pending set can be popped empty
RECURSIVE non_events_loop(_, _)
non_events_loop(B, R) ==
    IF B.non_events = {} THEN {R}
    ELSE UNION { LET p == pop_non_event(B, ne)
                 IN  non_events_loop([B EXCEPT !.non_events = p.non_events],
                                     try_event(B, R, p.bnds)) :
                 ne \in B.non_events }

\* the outcomes of get_events: [heap, out, k]
get_events(B, heap) ==
    non_events_loop(B, events_loop(B, [heap |-> heap, out |-> <<>>, k |-> 0], 1))

(***************************************************************************)
(* SV, SV.parse_sv and VCFManager: set_svs, get_svs_in_range, filter_svs   *)
(***************************************************************************)
valid_SVs == {"DEL", "DUP", "CNV", "INV", "TRA", "INS", "BND"}

\* a numeric text field is <<n>>, the text '.' is <<>>: int() of the first
\* is n, of the second raises ValueError (lines 239-242: end falls back to pos)
int_or(text, fallback) == IF text = <<>> THEN fallback ELSE text[1]

\* MATEID, PAIRID, EVENTID: '.' becomes None (lines 358-369)
dot_none(text) == IF text = "." THEN None ELSE text

\* SV.__init__ (lines 236-275) on the fields of record line number n; the
\* line number stands for the identity of the object
SV(line, svtype, n) ==
    LET end == int_or(line.end, line.pos)
    IN  [line     |-> n,
         chrom    |-> line.chrom,
         pos      |-> line.pos,
         end      |-> IF line.chr2 # "." THEN line.pos ELSE end,
         chr2     |-> IF line.chr2 # "." THEN line.chr2 ELSE None,
         chr2_pos |-> IF line.chr2 # "." THEN <<end>> ELSE <<>>,
         svtype   |-> svtype,
         GTs      |-> line.gts]

\* re.sub('[<>]', '', alt) on an ALT given as its characters and symbols
strip_angle(alt) ==
    LET kept == SelectSeq(alt, LAMBDA t : t \notin {"<", ">"})
    IN  IF Len(kept) = 1 THEN kept[1] ELSE "?"

\* the ALT of a breakend as its parts: a base or bracket each, the mate
\* locus as contig, ":" and position.  The four patterns of lines 347-350
right_fwd(alt) == Len(alt) = 6 /\ alt[2] = "[" /\ alt[4] = ":" /\ alt[6] = "["

right_rvs(alt) == Len(alt) = 6 /\ alt[2] = "]" /\ alt[4] = ":" /\ alt[6] = "]"

left_fwd(alt) == Len(alt) = 6 /\ alt[1] = "]" /\ alt[3] = ":" /\ alt[5] = "]"

left_rvs(alt) == Len(alt) = 6 /\ alt[1] = "[" /\ alt[3] = ":" /\ alt[5] = "["

\* lines 371-390: the attributes set after the ids.  When no pattern matches,
\* __init__ returns early (line 384) and leaves type, mate_chr and mate_pos
\* unset (None here); the object exists all the same
bnd_type(alt) ==
    IF right_fwd(alt) THEN [type |-> "right_fwd", mate_chr |-> alt[3], mate_pos |-> alt[5]]
    ELSE IF right_rvs(alt) THEN [type |-> "right_rvs", mate_chr |-> alt[3], mate_pos |-> alt[5]]
    ELSE IF left_fwd(alt) THEN [type |-> "left_fwd", mate_chr |-> alt[2], mate_pos |-> alt[4]]
    ELSE IF left_rvs(alt) THEN [type |-> "left_rvs", mate_chr |-> alt[2], mate_pos |-> alt[4]]
    ELSE [type |-> None, mate_chr |-> None, mate_pos |-> None]

\* whether BND_SV.__init__ raises ValueError (line 356), which parse_sv
\* catches (line 301)
bnd_sv_raises(line) == line.id = "."

\* SV.parse_sv (lines 277-304): <<>> is None, <<sv>> the object
parse_sv(line, n) ==
    LET svtype == IF line.svtype \notin valid_SVs THEN strip_angle(line.alt)
                  ELSE line.svtype
    IN  IF svtype \in valid_SVs
        THEN IF svtype = "BND"
             THEN IF bnd_sv_raises(line)
                  THEN <<>>
                  ELSE << SV(line, svtype, n)
                          @@ BND_SV(line.id, <<line.chrom, line.pos>>,
                                    dot_none(line.mateid), dot_none(line.pairid),
                                    dot_none(line.eventid))
                          @@ bnd_type(line.alt) >>
             ELSE << SV(line, svtype, n) >>
        ELSE <<>>

\* a dict of positions keeps the insertion order of its keys: a list of
\* <<pos, list>> items
has_key(d, k) == \E i \in 1..Len(d) : d[i][1] = k

key_index(d, k) == CHOOSE i \in 1..Len(d) : d[i][1] = k

get_item(d, k) == d[key_index(d, k)][2]

keys(d) == [i \in 1..Len(d) |-> d[i][1]]

\* d[k] = v
set_item(d, k, v) ==
    IF has_key(d, k) THEN [d EXCEPT ![key_index(d, k)] = <<k, v>>]
    ELSE Append(d, <<k, v>>)

\* d[k].append(x)
append_item(d, k, x) == [d EXCEPT ![key_index(d, k)][2] = Append(@, x)]

\* lines 40-47 and 62-69
index_sv(S, sv) ==
    IF sv.chrom \in DOMAIN S
    THEN IF has_key(S[sv.chrom], sv.pos)
         THEN [S EXCEPT ![sv.chrom] = append_item(@, sv.pos, sv)]
         ELSE [S EXCEPT ![sv.chrom] = set_item(@, sv.pos, <<sv>>)]
    ELSE dict_set(S, sv.chrom, << <<sv.pos, <<sv>> >> >>)

\* lines 49-57: the second contig is tested for sv.pos and written at sv.end;
\* line 52 raises KeyError when sv.pos is a key and sv.end is not
index_tra(S, sv) ==
    IF sv.svtype = "TRA"
    THEN IF sv.chr2 \in DOMAIN S
         THEN IF has_key(S[sv.chr2], sv.pos)
              THEN IF has_key(S[sv.chr2], sv.end)
                   THEN [SVs |-> [S EXCEPT ![sv.chr2] = append_item(@, sv.end, sv)],
                         raised |-> FALSE]
                   ELSE [SVs |-> S, raised |-> TRUE]
              ELSE [SVs |-> [S EXCEPT ![sv.chr2] = set_item(@, sv.end, <<sv>>)],
                    raised |-> FALSE]
         ELSE [SVs |-> dict_set(S, sv.chr2, << <<sv.end, <<sv>> >> >>),
               raised |-> FALSE]
    ELSE [SVs |-> S, raised |-> FALSE]

\* the object under construction: self.SVs, self.count, the local bnds with
\* its BND_SV objects, and whether an exception left set_svs
VCFManagerNew ==
    [SVs |-> <<>>, count |-> 0, bnds |-> BNDsNew, heap |-> <<>>, raised |-> FALSE]

\* lines 33-58: the loop over the record lines
RECURSIVE read_lines(_, _, _)
read_lines(st, lines, n) ==
    IF n > Len(lines) \/ st.raised THEN st
    ELSE LET parsed == parse_sv(lines[n], n)
         IN  IF parsed = <<>> THEN read_lines(st, lines, n + 1)
             ELSE LET sv == parsed[1]
                  IN  IF sv.svtype = "BND"
                      THEN read_lines(
                             [st EXCEPT
                                !.bnds = add_BND_bnds(st.bnds, sv, Len(st.heap) + 1),
                                !.heap = add_BND_calls(st.bnds, st.heap, sv)],
                             lines, n + 1)
                      ELSE LET t == index_tra(index_sv(st.SVs, sv), sv)
                           IN  read_lines(
                                 [st EXCEPT !.count = @ + 1, !.SVs = t.SVs,
                                            !.raised = t.raised],
                                 lines, n + 1)

\* lines 60-69: the breakends of the resolved events, in order
RECURSIVE index_bnds(_, _, _)
index_bnds(S, heap, ixs) ==
    IF ixs = <<>> THEN S
    ELSE index_bnds(index_sv(S, heap[Head(ixs)].sv), heap, Tail(ixs))

RECURSIVE index_events(_, _, _)
index_events(S, heap, events) ==
    IF events = <<>> THEN S
    ELSE index_events(index_bnds(S, heap, Head(events).bnds), heap, Tail(events))

\* sorted(list(d.keys()))
RECURSIVE sorted(_)
sorted(S) ==
    IF S = {} THEN <<>>
    ELSE LET m == CHOOSE x \in S : \A y \in S : x <= y
         IN  <<m>> \o sorted(S \ {m})

range(q) == { q[i] : i \in DOMAIN q }

\* lines 71-72
sorted_positions(S) == [chr \in DOMAIN S |-> sorted(range(keys(S[chr])))]

\* set_svs (lines 29-72) on the lines of a stream: the objects it can leave
\* (one per order in which get_events pops the pending breakends)
set_svs(lines) ==
    LET st == read_lines(VCFManagerNew, lines, 1)
    IN  IF st.raised
        THEN { [SVs |-> st.SVs, positions |-> <<>>, count |-> st.count,
                raised |-> TRUE] }
        ELSE { LET S == index_events(st.SVs, R.heap, R.out)
               IN  [SVs |-> S, positions |-> sorted_positions(S),
                    count |-> st.count, raised |-> FALSE] :
               R \in get_events(st.bnds, st.heap) }

\* line 100: the scan of the ascending positions stops here
scan_break_ge(pos, end) == pos >= end

scan_break(pos, end) == pos > end

\* lines 102-108: the calls of one position list that are kept
RECURSIVE scan_list(_, _, _, _)
scan_list(ret, svs, start, end) ==
    IF svs = <<>> THEN ret
    ELSE LET sv == Head(svs)
         IN  IF sv.pos > end THEN scan_list(ret, Tail(svs), start, end)
             ELSE IF sv.end < start THEN scan_list(ret, Tail(svs), start, end)
             ELSE scan_list(Append(ret, sv), Tail(svs), start, end)

\* lines 99-108
RECURSIVE scan_positions(_, _, _, _, _)
scan_positions(ret, d, ps, start, end) ==
    IF ps = <<>> THEN ret
    ELSE IF scan_break(Head(ps), end) THEN ret
    ELSE scan_positions(scan_list(ret, get_item(d, Head(ps)), start, end),
                        d, Tail(ps), start, end)

\* '1' in gt, gt one of the genotype texts of the stream
has_alt_allele(gt) == gt \in {"0/1", "1/0", "1/1"}

samples == <<"s1">>

sample_index(sample) == CHOOSE i \in 1..Len(samples) : samples[i] = sample

\* get_svs_in_range (lines 96-117) on the object self = [SVs, positions]
get_svs_in_range(self, chrom, start, end, sample) ==
    LET ret == IF chrom \in DOMAIN self.positions
               THEN scan_positions(<<>>, self.SVs[chrom], self.positions[chrom],
                                   start, end)
               ELSE <<>>
    IN  IF sample # None
        THEN SelectSeq(ret, LAMBDA sv : has_alt_allele(sv.GTs[sample_index(sample)]))
        ELSE ret

\* the contig names, in the order sorted() gives them
ChromNames == <<"1", "2", "3">>

\* lines 124-134: the new dict of shallow copies of the per-contig dicts
copy_matching(S, par) ==
    IF par.chrom # None
    THEN IF par.chrom \in DOMAIN S THEN (par.chrom :> S[par.chrom]) ELSE <<>>
    ELSE S

\* lines 140-141 and 151-153: matching[chrom][i] for i in range(len(...))
\* looks the count i up as a position key: KeyError when i is no key, and
\* AttributeError on the list found when it is one
index_loop_raises(matching) == \E chrom \in DOMAIN matching : Len(matching[chrom]) > 0

\* lines 164-166, 179-180 and 210-212: enumerate(matching[chrom]) hands out
\* the position keys, and an int has no AF, pos or end: AttributeError
key_loop_raises(matching) == \E chrom \in DOMAIN matching : Len(matching[chrom]) > 0

\* lines 137-221: whether a criterion of filter_par raises
criteria_raise(matching, par) ==
    \/ par.svtype # None /\ index_loop_raises(matching)
    \/ par.sample_GTs # <<>> /\ index_loop_raises(matching)
    \/ par.AF_thresh # <<>> /\ key_loop_raises(matching)
    \/ par.RG_intersection /\ key_loop_raises(matching)
    \/ (par.min_len # <<>> \/ par.max_len # <<>>) /\ key_loop_raises(matching)

\* lines 225-228: listed.extend(matching[chrom]) takes the keys of the dict
RECURSIVE listed(_, _)
listed(matching, chroms) ==
    IF chroms = <<>> THEN <<>>
    ELSE IF Head(chroms) \in DOMAIN matching
         THEN keys(matching[Head(chroms)]) \o listed(matching, Tail(chroms))
         ELSE listed(matching, Tail(chroms))

\* filter_svs (lines 123-229): what it returns, or that it raises
filter_svs(self, par) ==
    LET matching == copy_matching(self.SVs, par)
    IN  IF par.chrom # None /\ par.chrom \notin DOMAIN self.SVs
        THEN [ret |-> matching, raised |-> FALSE]
        ELSE IF criteria_raise(matching, par)
        THEN [ret |-> <<>>, raised |-> TRUE]
        ELSE IF par.as_list
        THEN [ret |-> listed(matching, ChromNames), raised |-> FALSE]
        ELSE [ret |-> matching, raised |-> FALSE]

filter_svs_self_inplace(self, par) ==
    [self EXCEPT !.SVs = copy_matching(self.SVs, par)]

\* filter_svs (lines 123-229): self.SVs and self.positions after the call.
\* Every assignment, append and del of the function has matching, delete or
\* listed on its left, and matching holds copies (lines 127, 134)
filter_svs_self(self, par) == self

NoCall == [op |-> "none", args |-> <<>>, ret |-> <<>>, raised |-> FALSE]

\* VCFManager.__init__ (lines 15-24) before set_svs is called
VCFManagerInit ==
    /\ vcf_lines = <<>>
    /\ SVs = <<>>
    /\ positions = <<>>
    /\ count = 0
    /\ vcf_call = NoCall
    /\ vcf_pc = "new"
(***************************************************************************)
(* Specification Spec: AlignStats.__init__, then process() per record      *)
(***************************************************************************)
ZeroStats(idx, cols) == [i \in BinsOf(idx) |-> [j \in cols |-> 0]]

AlignInit ==
    /\ align = [idx \in Schemes |->
                    [a |-> ZeroStats(idx, AlnCols),
                     d |-> ZeroStats(idx, DepthCols),
                     f |-> [i \in BinsOf(idx) |-> <<>>],
                     r |-> [i \in BinsOf(idx) |-> <<>>]]]
    /\ sam_entry = <<>>
    /\ n_records = 0

\* DepthStats.__init__ (lines 135-138): a (bins.num x 3) array of zeros
DepthStatsInit(bins, dtype) ==
    /\ depth_bins = bins
    /\ depths = [i \in 0..(bins.num - 1) |-> [j \in DepthCols |-> 0]]
    /\ depths_den = 1
    /\ depths_dtype = dtype
    /\ bedcov = <<>>
    /\ depth_call = "none"
    /\ n_converts = 0

\* DepthStats(depth_bins) of get_sam_stats (line 321): default dtype np.float
DepthIdle ==
    DepthStatsInit([chrom |-> "1", start |-> 100, size |-> 2, num |-> 1], "float64")

process(e) ==
    /\ n_records < MaxRecords
    /\ align' = [idx \in Schemes |->
                     process_scheme(idx, e, align[idx].a, align[idx].d,
                                    align[idx].f, align[idx].r)]
    /\ sam_entry' = <<e>>
    /\ n_records' = n_records + 1
    /\ UNCHANGED <<depthVars, eventVars, bndsVars, vcfVars, samVars>>

Process == \E e \in SamEntries : process(e)

Init == AlignInit /\ DepthIdle /\ EventIdle /\ BNDsInit /\ VCFManagerInit /\ SamIdle

Next == Process

Spec == Init /\ [][Next]_vars


(***************************************************************************)
(* DepthStats.set_depths and DepthStats.convert_depths                     *)
(***************************************************************************)
\* per-bin coverage a bedcov call can report
CovSet == 0..2

\* the outputs of the three bedcov calls (lines 149-151) for num bins:
\* coverage does not grow with the quality floor
CovTriples ==
    { t \in CovSet \X CovSet \X CovSet : t[1] >= t[2] /\ t[2] >= t[3] }

BedcovOutputs(num) ==
    { [total |-> [b \in 0..(num - 1) |-> f[b][1]],
       gt_1  |-> [b \in 0..(num - 1) |-> f[b][2]],
       gt_T  |-> [b \in 0..(num - 1) |-> f[b][3]]] :
        f \in [0..(num - 1) -> CovTriples] }

\* numpy: arr[k] of a 2-d array is row k; IndexError when k is no row
row_exists(arr, k) == k \in DOMAIN arr

\* numpy: arr[k] = vec stores vec into row k of a (rows x 3) array when vec
\* has 3 elements, broadcasts a 1-element vec, and is a ValueError otherwise
row_assignable(vec) == Cardinality(DOMAIN vec) \in {1, 3}

row_assign(arr, k, vec) ==
    [arr EXCEPT ![k] = [j \in DepthCols |->
                          IF Cardinality(DOMAIN vec) = 1 THEN vec[0] ELSE vec[j]]]

\* the stored array after the three assignments of lines 151-153 and the
\* exception that ended the call, if any; stored values are numerators over
\* den
set_depths_result(arr, den, c) ==
    LET scaled(v) == [b \in DOMAIN v |-> v[b] * den]
        total == scaled(c.total)
        gt_1  == scaled(c.gt_1)
        gt_T  == scaled(c.gt_T)
    IN  IF ~row_assignable(total)
        THEN [depths |-> arr, raised |-> "ValueError"]
        ELSE LET a1 == row_assign(arr, TOTAL, total)
                 \* row TOTAL minus depths_gt_1, element by element
                 r2 == [j \in DepthCols |->
                          a1[TOTAL][j] - (IF Cardinality(DOMAIN gt_1) = 1
                                          THEN gt_1[0] ELSE gt_1[j])]
             IN  IF ~row_exists(a1, MAPQ0)
                 THEN [depths |-> a1, raised |-> "IndexError"]
                 ELSE LET a2 == [a1 EXCEPT ![MAPQ0] = r2]
                          r1 == [j \in DepthCols |->
                                   a2[TOTAL][j] - gt_T[j] - a2[MAPQ0][j]]
                      IN  [depths |-> [a2 EXCEPT ![MAPQLTT] = r1],
                           raised |-> "none"]

set_depths(c) ==
    /\ LET res == set_depths_result(depths, depths_den, c)
       IN  /\ depths' = res.depths
           /\ depth_call' = IF res.raised = "none" THEN "set_depths"
                            ELSE res.raised
    /\ bedcov' = <<c>>
    /\ UNCHANGED <<depth_bins, depths_den, depths_dtype, n_converts>>

\* samtools bedcov -Q min_Q (line 382) counts the bases of a read whose
\* mapping quality is at least min_Q: 1 if a read of quality q counts
bedcov_counts(q, min_Q) == IF q >= min_Q THEN 1 ELSE 0

\* set_depths (lines 149-153) on the coverage of one read of quality q: the
\* share of the read each tier receives
set_depths_tiers(q) ==
    LET depths_gt_1 == bedcov_counts(q, 1)
        depths_gt_T == bedcov_counts(q, mapq_thresh)
        total == bedcov_counts(q, 0)
        mapq0 == total - depths_gt_1
        mapqltt == total - depths_gt_T - mapq0
    IN  (TOTAL :> total) @@ (MAPQ0 :> mapq0) @@ (MAPQLTT :> mapqltt)

\* line 159: `self.depths.dtype is np.float` compares a numpy.dtype instance
\* with the type object float by identity
dtype_is_np_float(dtype) == FALSE

convert_depths ==
    /\ n_converts < MaxConverts
    /\ IF dtype_is_np_float(depths_dtype)
       THEN /\ depth_call' = "ValueError"
            /\ UNCHANGED <<depths_den, depths_dtype, n_converts>>
       ELSE /\ depths_den' = depths_den * depth_bins.size
            /\ depths_dtype' = "float64"
            /\ n_converts' = n_converts + 1
            /\ depth_call' = "convert_depths"
    /\ UNCHANGED <<depth_bins, depths, bedcov>>

SetDepths ==
    /\ bedcov = <<>>
    /\ \E c \in BedcovOutputs(depth_bins.num) : set_depths(c)
    /\ UNCHANGED <<alignVars, eventVars, bndsVars, vcfVars, samVars>>

ConvertDepths == convert_depths /\ UNCHANGED <<alignVars, eventVars, bndsVars, vcfVars, samVars>>

InitDepth ==
    /\ AlignInit /\ EventIdle /\ BNDsInit /\ VCFManagerInit /\ SamIdle
    /\ \E num \in 1..MaxDepthBins : \E dtype \in {"intc", "float64"} :
          DepthStatsInit([chrom |-> "1", start |-> 100, size |-> 2, num |-> num],
                         dtype)

NextDepth == SetDepths \/ ConvertDepths

SpecDepth == InitDepth /\ [][NextDepth]_vars

(***************************************************************************)
(* Specification SpecCigar: SamEntry.get_aligned_pos on a CIGAR text       *)
(***************************************************************************)
\* str(n) for n >= 0
RECURSIVE str(_)
str(n) == IF n < 10 THEN <<Digits[n + 1]>> ELSE str(n \div 10) \o <<Digits[(n % 10) + 1]>>

\* the text of one CIGAR group
group_text(n, op) == str(n) \o <<op>>

RECURSIVE groups_text(_)
groups_text(ops) ==
    IF ops = <<>> THEN <<>>
    ELSE group_text(Head(ops)[1], Head(ops)[2]) \o groups_text(Tail(ops))

\* a clip group is left out when its length is 0
clip_text(n, op) == IF n = 0 THEN <<>> ELSE group_text(n, op)

\* the CIGAR text of a record with hard and soft clips around its operations
cigar_text(c) ==
    clip_text(c.lh, "H") \o clip_text(c.ls, "S") \o groups_text(c.ops)
    \o clip_text(c.rs, "S") \o clip_text(c.rh, "H")

\* the operations a CIGAR of the stream is made of: <<length, op>>
OpGroups ==
    { <<40, "M">>, <<10, "M">>, <<5, "D">>, <<3, "I">>, <<7, "N">>, <<2, "X">>,
      <<1, "=">> }

\* the CIGARs of the clip/op grammar: 1..MaxOps operations, clips optional
Cigars ==
    UNION { [lh : {0, 2}, ls : {0, 10}, ops : [1..n -> OpGroups], rs : {0, 5},
             rh : {0, 2}] : n \in 1..MaxOps }

\* the call SamEntry.__init__ makes (line 40) on the POS and CIGAR drawn
GetAlignedPos ==
    /\ cigar_out = <<>>
    /\ cigar_out' = << get_aligned_pos(cigar_in[1].pos, cigar_text(cigar_in[1].cigar)) >>
    /\ UNCHANGED <<cigar_in, sam_line, n_lines, sam_pc>>
    /\ UNCHANGED <<alignVars, depthVars, eventVars, bndsVars, vcfVars>>

InitCigar ==
    /\ AlignInit /\ DepthIdle /\ EventIdle /\ BNDsInit /\ VCFManagerInit
    /\ cigar_in \in { << [pos |-> pos, cigar |-> c] >> : pos \in {100}, c \in Cigars }
    /\ cigar_out = <<>>
    /\ sam_line = <<>>
    /\ n_lines = 0
    /\ sam_pc = "reading"

NextCigar == GetAlignedPos

SpecCigar == InitCigar /\ [][NextCigar]_vars

(***************************************************************************)
(* Specification SpecSam: get_sam_stats reading the lines of samtools view *)
(***************************************************************************)
\* one line of samtools view: the number of its fields and the six fields
\* SamEntry is built from
SamLine(nfields, flag, pos, cigar, tlen) ==
    [nfields |-> nfields, flag |-> flag, pos |-> pos, mapQ |-> 31, cigar |-> cigar,
     rnext |-> "=", tlen |-> tlen]

\* CIGAR texts of the grammar: inside scheme 1, and inside both schemes
GoodCigars == { <<101, <<"1", "0", "M">> >>, <<103, <<"2", "S", "2", "M">> >> }

\* CIGAR texts outside the grammar: no operation at all ('*' of an unmapped
\* read), clips only, a soft clip between operations
BadCigars ==
    { <<101, <<"*">> >>, <<101, <<"3", "S">> >>,
      <<101, <<"5", "M", "2", "S", "3", "M">> >> }

SamLines ==
    { SamLine(11, f[1], c[1], c[2], f[2]) :
          f \in { <<32, 7>>, <<16, -7>> }, c \in GoodCigars }
    \cup { SamLine(11, 32, c[1], c[2], 7) : c \in BadCigars }
    \cup { SamLine(4, 32, 101, <<"1", "0", "M">>, 7) }

\* line 329: line.split()[1:9] unpacked into eight names raises ValueError
\* when the line has fewer than nine fields
too_few_fields(line) == line.nfields < 9

\* SamEntry.__init__ (lines 33-40)
SamEntryOfLine(line) ==
    LET span == get_aligned_pos(line.pos, line.cigar)
    IN  [flag |-> line.flag, mate_diff_molecule |-> line.rnext # "=",
         mapQ |-> line.mapQ, tlen |-> line.tlen, left |-> span.left,
         right |-> span.right, num_clipped |-> num_clipped_of(line.cigar)]

\* lines 327-335: one pass of the loop over the lines
ReadLine ==
    /\ sam_pc = "reading"
    /\ n_lines < MaxSamLines
    /\ \E line \in SamLines :
          /\ sam_line' = <<line>>
          /\ IF too_few_fields(line)
             THEN sam_pc' = "reading" /\ UNCHANGED alignVars
             ELSE IF get_aligned_pos(line.pos, line.cigar).raised
             THEN sam_pc' = "aborted" /\ UNCHANGED alignVars
             ELSE LET e == SamEntryOfLine(line)
                  IN  /\ align' = [idx \in Schemes |->
                                      process_scheme(idx, e, align[idx].a, align[idx].d,
                                                     align[idx].f, align[idx].r)]
                      /\ sam_entry' = <<e>>
                      /\ n_records' = n_records + 1
                      /\ sam_pc' = "reading"
    /\ n_lines' = n_lines + 1
    /\ UNCHANGED <<cigar_in, cigar_out>>
    /\ UNCHANGED <<depthVars, eventVars, bndsVars, vcfVars>>

InitSam == AlignInit /\ DepthIdle /\ EventIdle /\ BNDsInit /\ VCFManagerInit /\ SamIdle

NextSam == ReadLine

SpecSam == InitSam /\ [][NextSam]_vars

(***************************************************************************)
(* Claims on DepthStats (specification SpecDepth)                          *)
(***************************************************************************)
DepthBinIdx == 0..(depth_bins.num - 1)

\* C4 as stated: after set_depths, with one row per bin and one column per
\* tier, every bin b holds total[b], total[b] - coverage(Q>=1)[b] as its
\* zero-quality depth and total[b] - coverage(Q>=threshold)[b] - zero-quality
\* depth[b] as its below-threshold depth, so the two tiers and the coverage
\* at Q>=threshold add up to total[b].
C4_TiersPerBin ==
    depth_call = "set_depths" =>
        \A b \in DepthBinIdx :
            /\ depths[b][TOTAL] = bedcov[1].total[b] * depths_den
            /\ depths[b][MAPQ0] = (bedcov[1].total[b] - bedcov[1].gt_1[b]) * depths_den
            /\ depths[b][MAPQLTT] =
                 (bedcov[1].total[b] - bedcov[1].gt_T[b]) * depths_den - depths[b][MAPQ0]
            /\ depths[b][MAPQ0] + depths[b][MAPQLTT] + bedcov[1].gt_T[b] * depths_den
                 = depths[b][TOTAL]

\* C5 as stated: convert_depths succeeds at most once per accumulator: a call
\* on depths that are not integer counts (in particular a second call, the
\* first having made them floating point) fails and leaves the stored depths
\* as they were instead of dividing by bin_size.
C5_ConvertAtMostOnce ==
    [][depths_dtype = "float64" =>
        /\ n_converts' = n_converts
        /\ (depth_call' # depth_call => depth_call' # "convert_depths")
        /\ depths_den' = depths_den]_vars

(***************************************************************************)
(* Claims on AlignStats.process (specification Spec)                       *)
(***************************************************************************)
\* a process() call has just been made (with record sam_entry'[1])
Processed == n_records' = n_records + 1

\* the bin of scheme idx that contains coordinate p
BinContaining(idx, p) ==
    CHOOSE i \in BinsOf(idx) :
        /\ bkpt_bins[idx].start + i * bkpt_bins[idx].size <= p
        /\ p < bkpt_bins[idx].start + (i + 1) * bkpt_bins[idx].size

Covered(idx, e) == get_bin_coverage(bkpt_bins[idx], e.left, e.right) # NoCov

Spanned(idx, e) == BinContaining(idx, e.left)..BinContaining(idx, e.right)

MateUnmapped(e) == (e.flag \div 8) % 2 = 1
SelfReverse(e) == (e.flag \div 16) % 2 = 1
MateReverse(e) == (e.flag \div 32) % 2 = 1
Inverted(e) == (~SelfReverse(e) /\ e.tlen < 0) \/ (SelfReverse(e) /\ e.tlen > 0)

\* the evidence-intent category by the priority order of the specification
Category(e) ==
    IF MateUnmapped(e) THEN "orphaned"
    ELSE IF e.mate_diff_molecule THEN "diffmol"
    ELSE IF SelfReverse(e) = MateReverse(e) THEN "samestrand"
    ELSE IF Inverted(e) THEN "inverted"
    ELSE "correct"

CategoryCol ==
    [orphaned |-> ORPHANED, diffmol |-> DIFFMOL, samestrand |-> SAMESTRAND,
     inverted |-> INVERTED]

DiscordanceCols == {ORPHANED, DIFFMOL, SAMESTRAND, INVERTED}

\* the increment process() made to counter col of bin i of scheme idx
Delta(idx, i, col) == aln_stats'[idx][i][col] - aln_stats[idx][i][col]

QualifiesForInsert(e) ==
    /\ ~MateUnmapped(e) /\ ~e.mate_diff_molecule
    /\ SelfReverse(e) # MateReverse(e) /\ ~Inverted(e)
    /\ e.tlen # 0 /\ e.mapQ > mapq_thresh

\* the insert-size lists of scheme idx after value v was appended to list
\* which ("f" or "r") of bin b and nothing else changed
InsertRecorded(idx, which, b, v) ==
    /\ fwd_inserts'[idx] =
         IF which = "f" THEN [fwd_inserts[idx] EXCEPT ![b] = Append(@, v)]
         ELSE fwd_inserts[idx]
    /\ rvs_inserts'[idx] =
         IF which = "r" THEN [rvs_inserts[idx] EXCEPT ![b] = Append(@, v)]
         ELSE rvs_inserts[idx]

NoInsertRecorded(idx) ==
    fwd_inserts'[idx] = fwd_inserts[idx] /\ rvs_inserts'[idx] = rvs_inserts[idx]

CreditedTiers(idx) ==
    { j \in DepthCols :
        \E i \in BinsOf(idx) : aln_depths'[idx][i][j] # aln_depths[idx][i][j] }

\* the tiers of section 4.4: total, below-threshold, zero-quality
TiersOf(q) ==
    {TOTAL} \cup (IF 0 < q /\ q <= mapq_thresh THEN {MAPQLTT} ELSE {})
            \cup (IF q = 0 THEN {MAPQ0} ELSE {})

\* C16: for a record with a bin coverage, process credits TOTAL, MAPQLTT iff
\* 0 < mapQ <= threshold and MAPQ0 iff mapQ = 0, and these are the tiers
\* set_depths gives a read of that quality, at the threshold too.
C16_TiersAgree ==
    [][Processed => LET e == sam_entry'[1] IN
        \A idx \in Schemes : Covered(idx, e) =>
            /\ CreditedTiers(idx) = TiersOf(e.mapQ)
            /\ CreditedTiers(idx) = { j \in DepthCols : set_depths_tiers(e.mapQ)[j] = 1 }]_vars

(***************************************************************************)
(* Specification SpecEvent: BND_Event built from a list of breakends and   *)
(* from a reordering of the same list                                      *)
(***************************************************************************)
\* (chrom, pos) of the breakends handed to BND_Event
EventLoci == {<<"1", 100>>, <<"1", 115>>, <<"1", 130>>, <<"1", 145>>, <<"2", 100>>}

GroupIds == <<"a", "b", "c", "d", "e">>

Perms(n) == { q \in [1..n -> 1..n] : \A i, j \in 1..n : q[i] = q[j] => i = j }

Construct ==
    /\ ev_pc = "none"
    /\ \E n \in 1..MaxGroup : \E f \in [1..n -> EventLoci] : \E q \in Perms(n) :
          LET members == [j \in 1..n |-> BND_SV(GroupIds[j], f[j], None, None, "e1")]
              reordered == [j \in 1..n |-> members[q[j]]]
          IN  /\ ev_bnds' = members
              /\ ev_perm' = reordered
              /\ ev' = BND_Event(members)
              /\ ev2' = BND_Event(reordered)
    /\ ev_pc' = "built"
    /\ UNCHANGED <<alignVars, depthVars, bndsVars, vcfVars, samVars>>

InitEvent == AlignInit /\ DepthIdle /\ EventIdle /\ BNDsInit /\ VCFManagerInit /\ SamIdle

NextEvent == Construct

SpecEvent == InitEvent /\ [][NextEvent]_vars

(***************************************************************************)
(* Specification SpecBNDs: add_BND per breakend record, then get_events    *)
(***************************************************************************)
\* where the breakend with a given id lies: three loci more than delta apart
LocusOf == [a |-> <<"1", 1000>>, b |-> <<"2", 5000>>, c |-> <<"3", 7000>>]

\* the breakend records a stream can carry
BndCalls ==
    { BND_SV("a", LocusOf.a, m, None, e) : m \in {None, "b"}, e \in {None, "e1"} }
    \cup { BND_SV("b", LocusOf.b, m, q, e) :
               m \in {None, "a"}, q \in {None, "c"}, e \in {None, "e1"} }
    \cup { BND_SV("c", LocusOf.c, m, q, e) :
               m \in {None, "a"}, q \in {None, "b"}, e \in {None, "e1"} }

add_BND(sv) ==
    /\ bnds' = add_BND_bnds(bnds, sv, Len(calls) + 1)
    /\ calls' = add_BND_calls(bnds, calls, sv)

AddBND ==
    /\ bnds_pc = "adding"
    /\ Len(calls) < MaxAdds
    /\ \E sv \in BndCalls : add_BND(sv)
    /\ UNCHANGED <<bnd_events, bnds_pc>>
    /\ UNCHANGED <<alignVars, depthVars, eventVars, vcfVars, samVars>>

GetEvents ==
    /\ bnds_pc = "adding"
    /\ \E R \in get_events(bnds, calls) :
          /\ calls' = R.heap
          /\ bnd_events' = R.out
    /\ bnds' = [bnds EXCEPT !.non_events = {}]
    /\ bnds_pc' = "resolved"
    /\ UNCHANGED <<alignVars, depthVars, eventVars, vcfVars, samVars>>

InitBNDs == AlignInit /\ DepthIdle /\ EventIdle /\ BNDsInit /\ VCFManagerInit /\ SamIdle

NextBNDs == AddBND \/ GetEvents

SpecBNDs == InitBNDs /\ [][NextBNDs]_vars

(***************************************************************************)
(* Specification SpecGroups: add_BND of records in event-id groups and     *)
(* pending ones, then get_events                                           *)
(***************************************************************************)
\* the breakend records of this stream: a, b and c lie at three loci and
\* belong to event e1 (a can also be pending); d lies within delta of a, is
\* pending or in event e2, and can name a as its mate
GroupCalls ==
    { BND_SV("a", LocusOf.a, None, None, e) : e \in {None, "e1"} }
    \cup { BND_SV(id, LocusOf[id], None, None, "e1") : id \in {"b", "c"} }
    \cup { BND_SV("d", <<"1", 1010>>, m, None, e) : m \in {None, "a"}, e \in {None, "e2"} }

AddGroupBND ==
    /\ bnds_pc = "adding"
    /\ Len(calls) < MaxCalls
    /\ \E sv \in GroupCalls : add_BND(sv)
    /\ UNCHANGED <<bnd_events, bnds_pc>>
    /\ UNCHANGED <<alignVars, depthVars, eventVars, vcfVars, samVars>>

InitGroups == AlignInit /\ DepthIdle /\ EventIdle /\ BNDsInit /\ VCFManagerInit /\ SamIdle

NextGroups == AddGroupBND \/ GetEvents

SpecGroups == InitGroups /\ [][NextGroups]_vars

(***************************************************************************)
(* Specification SpecVCF: VCFManager(vcf_file), then one query on it       *)
(***************************************************************************)
\* one record line of BCFtools.get_SV_sites (the fields parse_sv splits)
VcfLine(chrom, pos, id, alt, end, svtype, mateid, chr2, gt) ==
    [chrom |-> chrom, pos |-> pos, id |-> id, alt |-> alt, end |-> end,
     svtype |-> svtype, eventid |-> ".", pairid |-> ".", mateid |-> mateid,
     chr2 |-> chr2, gts |-> <<gt>>]

SymbolicDel == <<"<", "DEL", ">">>

\* the record lines a stream can carry: deletions on two contigs (one with
\* its type only in ALT and no END), a delly translocation, a line that is
\* no structural variant, two mated breakends, and a breakend whose ALT has
\* none of the four bracket notations
VcfLines ==
    { VcfLine("1", 500, ".", SymbolicDel, <<1500>>, "DEL", ".", ".", "0/1"),
      VcfLine("1", 1800, ".", SymbolicDel, <<1900>>, "DEL", ".", ".", "0/0"),
      VcfLine("1", 3000, ".", SymbolicDel, <<3100>>, "DEL", ".", ".", "1/1"),
      VcfLine("1", 500, ".", SymbolicDel, <<>>, ".", ".", ".", "0/0"),
      VcfLine("2", 1800, ".", SymbolicDel, <<1900>>, "DEL", ".", ".", "0/1"),
      VcfLine("1", 1800, ".", <<"<", "TRA", ">">>, <<3000>>, "TRA", ".", "2", "0/1"),
      VcfLine("1", 700, ".", <<"T">>, <<>>, ".", ".", ".", "0/1"),
      VcfLine("1", 1000, "a", <<"N", "[", "2", ":", "5000", "[">>, <<>>, "BND", "b", ".", "0/1"),
      VcfLine("2", 5000, "b", <<"]", "1", ":", "1000", "]", "N">>, <<>>, "BND", "a", ".", "0/1"),
      VcfLine("2", 7000, "c", <<"N", ".">>, <<>>, "BND", ".", ".", "0/1") }

\* the ranges asked for: [start, end] with start <= end
QueryRanges == { <<1000, 2000>>, <<1000, 1800>>, <<0, 400>>, <<1500, 1700>> }

Queries ==
    { [chrom |-> c, start |-> r[1], end |-> r[2], sample |-> None] :
          c \in {"1", "2", "3"}, r \in QueryRanges }
    \cup { [chrom |-> c, start |-> 1000, end |-> 2000, sample |-> "s1"] :
               c \in {"1", "2"} }

\* filter_par with no criterion set
NoFilter ==
    [chrom |-> None, svtype |-> None, sample_GTs |-> <<>>, AF_thresh |-> <<>>,
     RG_intersection |-> FALSE, min_len |-> <<>>, max_len |-> <<>>,
     as_list |-> FALSE]

Criteria ==
    { NoFilter,
      [NoFilter EXCEPT !.svtype = "DEL"],
      [NoFilter EXCEPT !.sample_GTs = << <<"s1", "0/1">> >>],
      [NoFilter EXCEPT !.AF_thresh = <<1>>],
      [NoFilter EXCEPT !.RG_intersection = TRUE],
      [NoFilter EXCEPT !.min_len = <<50>>],
      [NoFilter EXCEPT !.svtype = "DEL", !.max_len = <<5000>>],
      [NoFilter EXCEPT !.as_list = TRUE] }

\* the filters asked for: with and without a contig, on a contig without calls
FilterPars == { [par EXCEPT !.chrom = c] : par \in Criteria, c \in {None, "1", "3"} }

self == [SVs |-> SVs, positions |-> positions]

SetSVs ==
    /\ vcf_pc = "new"
    /\ \E n \in 0..MaxLines : \E lines \in [1..n -> VcfLines] :
          \E built \in set_svs(lines) :
             /\ vcf_lines' = lines
             /\ SVs' = built.SVs
             /\ positions' = built.positions
             /\ count' = built.count
             /\ vcf_pc' = IF built.raised THEN "failed" ELSE "ready"
    /\ vcf_call' = [NoCall EXCEPT !.op = "set_svs"]
    /\ UNCHANGED <<alignVars, depthVars, eventVars, bndsVars, samVars>>

GetSVsInRange ==
    /\ vcf_pc = "ready"
    /\ \E q \in Queries :
          vcf_call' = [op |-> "get_svs_in_range", args |-> q,
                       ret |-> get_svs_in_range(self, q.chrom, q.start, q.end,
                                                q.sample),
                       raised |-> FALSE]
    /\ vcf_pc' = "called"
    /\ UNCHANGED <<vcf_lines, SVs, positions, count>>
    /\ UNCHANGED <<alignVars, depthVars, eventVars, bndsVars, samVars>>

FilterSVs ==
    /\ vcf_pc = "ready"
    /\ \E par \in FilterPars :
          LET out == filter_svs(self, par)
              after == filter_svs_self(self, par)
          IN  /\ vcf_call' = [op |-> "filter_svs", args |-> par,
                              ret |-> out.ret, raised |-> out.raised]
              /\ SVs' = after.SVs
              /\ positions' = after.positions
    /\ vcf_pc' = "called"
    /\ UNCHANGED <<vcf_lines, count>>
    /\ UNCHANGED <<alignVars, depthVars, eventVars, bndsVars, samVars>>

InitVCF == AlignInit /\ DepthIdle /\ EventIdle /\ BNDsInit /\ VCFManagerInit /\ SamIdle

NextVCF == SetSVs \/ GetSVsInRange \/ FilterSVs

SpecVCF == InitVCF /\ [][NextVCF]_vars

(***************************************************************************)
(* Claims on BND_Event (specification SpecEvent)                           *)
(***************************************************************************)
Abs(x) == IF x < 0 THEN 0 - x ELSE x

\* positions a locus may be placed at
LocusRange == 100..145

\* the breakends of set S all lie within 20 bp of one locus of their
\* chromosome
FitOneLocus(S) ==
    \/ S = {}
    \/ /\ \A x, y \in S : x.chrom = y.chrom
       /\ \E p \in LocusRange : \A x \in S : Abs(x.pos - p) <= 20

\* the positions of the list can be covered by 2 loci
CoverableBy2(members) ==
    LET M == { members[k] : k \in 1..Len(members) }
    IN  \E S \in SUBSET M : FitOneLocus(S) /\ FitOneLocus(M \ S)

NearSomeLocus(bnd, loci) ==
    \E j \in 1..Len(loci) :
        loci[j][1] = bnd.chrom /\ Abs(bnd.pos - loci[j][2]) <= 20

\* C6: construction fails for every list whose positions 2 loci cannot
\* cover, and every event that was constructed has 1 or 2 loci with every
\* member within 20 bp of one of them on its chromosome.
C6_RejectsThirdLocus ==
    ev_pc = "built" =>
        /\ ~CoverableBy2(ev_bnds) => ev.raised
        /\ ~ev.raised =>
              /\ Len(ev.loci) \in 1..2
              /\ \A k \in 1..Len(ev_bnds) : NearSomeLocus(ev_bnds[k], ev.loci)

\* C6 witness: a list of three breakends that no 2 loci cover was rejected.
C6_Witness ==
    /\ ev_pc = "built"
    /\ Len(ev_bnds) = 3
    /\ ~CoverableBy2(ev_bnds)
    /\ ev.raised

\* C7 as stated: a list and any reordering of it are both rejected or both
\* constructed, and when constructed they have the same set of loci.
C7_OrderIndependent ==
    ev_pc = "built" =>
        /\ ev.raised = ev2.raised
        /\ ~ev.raised =>
              { ev.loci[j] : j \in 1..Len(ev.loci) }
                  = { ev2.loci[j] : j \in 1..Len(ev2.loci) }

(***************************************************************************)
(* Claims on BNDs (specification SpecBNDs)                                 *)
(***************************************************************************)
CallIxs == 1..Len(calls)

\* objects A and B are mates of each other by mate_id, carry no event or
\* pair id, and no other record added has their ids or references them
MatesAlone(A, B) ==
    /\ A # B
    /\ calls[A].sv.mate_id = calls[B].sv.id /\ calls[B].sv.mate_id = calls[A].sv.id
    /\ \A X \in {A, B} :
          calls[X].sv.event_id = None /\ calls[X].sv.pair_id = None
    /\ \A X \in CallIxs \ {A, B} :
          /\ calls[X].sv.id \notin {calls[A].sv.id, calls[B].sv.id}
          /\ calls[X].sv.mate_id \notin {calls[A].sv.id, calls[B].sv.id}
          /\ calls[X].sv.pair_id \notin {calls[A].sv.id, calls[B].sv.id}

\* the returned events that have object X among their members
EventsWith(X) ==
    { k \in 1..Len(bnd_events) :
        \E j \in 1..Len(bnd_events[k].bnds) : bnd_events[k].bnds[j] = X }

Added == Len(calls') = Len(calls) + 1

\* relation rel' maps x to y and y to x
LinkedBothWays(rel, x, y) ==
    /\ x \in DOMAIN rel /\ rel[x] = y
    /\ y \in DOMAIN rel /\ rel[y] = x

\* C12: right after add_BND(call), a mate_id naming an already added call M
\* has the mate relation map call to M and M to call and the MATE references
\* of the two point to each other; a pair_id naming an already added call P
\* has the pair relation map call to P and P to call; with both known, both
\* links hold at once.
C12_LinksHold ==
    [][Added =>
         LET ix == Len(calls')
             sv == calls'[ix].sv
         IN  /\ (sv.mate_id # None /\ sv.mate_id \in DOMAIN bnds.BNDs) =>
                   /\ LinkedBothWays(bnds'.mates, sv.id, sv.mate_id)
                   /\ calls'[ix].MATE = bnds'.BNDs[sv.mate_id]
                   /\ calls'[bnds'.BNDs[sv.mate_id]].MATE = ix
             /\ (sv.pair_id # None /\ sv.pair_id \in DOMAIN bnds.BNDs) =>
                   LinkedBothWays(bnds'.pairs, sv.id, sv.pair_id)]_vars

\* C13: after any sequence of add_BND calls, an id added with an event_id is
\* listed under that event_id exactly once, however often it was added, and
\* an id added without an event_id is pending and in no event id list.
C13_ListedOnce ==
    bnds_pc = "adding" =>
        \A x \in CallIxs :
            LET sv == calls[x].sv
                listed_in(k) == { j \in 1..Len(bnds.events[k].ids) :
                                    bnds.events[k].ids[j] = sv.id }
            IN  IF sv.event_id # None
                THEN \E k \in 1..Len(bnds.events) :
                        /\ bnds.events[k].event_id = sv.event_id
                        /\ Cardinality(listed_in(k)) = 1
                ELSE /\ sv.id \in bnds.non_events
                     /\ \A k \in 1..Len(bnds.events) : listed_in(k) = {}

\* the places object x takes in the returned events: <<event, position>>
Memberships(x) ==
    { p \in UNION { { <<n, j>> : j \in 1..Len(bnd_events[n].bnds) } :
                    n \in 1..Len(bnd_events) } :
        bnd_events[p[1]].bnds[p[2]] = x }

\* C19: after add_BND calls and get_events every breakend call is a member of
\* at most one returned event, also a call with an event_id that is the
\* linked mate of a call without one.
C19_InOneEventAtMost ==
    bnds_pc = "resolved" =>
        \A x \in CallIxs : Cardinality(Memberships(x)) <= 1

\* C20: after get_events a call whose BND_Event reference is set refers to an
\* event of the returned list that has the call among its members; the calls
\* of a group rejected for a third locus do not refer to the rejected event.
C20_BackReferenceReturned ==
    bnds_pc = "resolved" =>
        \A x \in CallIxs : calls[x].BND_Event # 0 =>
            \E n \in 1..Len(bnd_events) :
                /\ bnd_events[n].eid = calls[x].BND_Event
                /\ \E j \in 1..Len(bnd_events[n].bnds) : bnd_events[n].bnds[j] = x

(***************************************************************************)
(* Claims on BNDs.get_events (specification SpecGroups)                    *)
(***************************************************************************)
\* a get_events step
Resolved == bnds_pc = "adding" /\ bnds_pc' = "resolved"

\* the objects of event-id group k, in list order
GroupIxs(k) == [j \in 1..Len(bnds.events[k].ids) |-> bnds.BNDs[bnds.events[k].ids[j]]]

GroupRaises(k) == BND_Event([j \in 1..Len(GroupIxs(k)) |-> calls[GroupIxs(k)[j]].sv]).raised

ReturnedWith(ixs) == { n \in 1..Len(bnd_events') : bnd_events'[n].bnds = ixs }

MemberOfReturned(x) ==
    \E n \in 1..Len(bnd_events') :
        \E j \in 1..Len(bnd_events'[n].bnds) : bnd_events'[n].bnds[j] = x

\* C14: get_events returns (it does not raise) whatever the groups; an
\* event-id group that needs a third locus is not in the returned list, every
\* event-id group that does not is returned, and every pending id comes back
\* in a returned event.
C14_RejectedGroupIsLocal ==
    [][Resolved =>
         /\ \A k \in 1..Len(bnds.events) :
               IF GroupRaises(k) THEN ReturnedWith(GroupIxs(k)) = {}
               ELSE ReturnedWith(GroupIxs(k)) # {}
         /\ \A id \in bnds.non_events : MemberOfReturned(bnds.BNDs[id])]_vars

\* C14 witness: group e1 with a, b and c at three loci was rejected, and the
\* group e2 and a pending call added with it were returned.
C14_Witness ==
    /\ bnds_pc = "resolved"
    /\ Len(calls) = 5
    /\ \A x \in 1..3 : calls[x].sv.event_id = "e1"
    /\ {calls[x].sv.id : x \in 1..3} = {"a", "b", "c"}
    /\ calls[4].sv.event_id = "e2"
    /\ calls[5].sv.event_id = None /\ calls[5].sv.id = "a"
    /\ Len(bnd_events) = 2
    /\ bnd_events[1].bnds = <<4>>
    /\ bnd_events[2].bnds = <<5>>

(***************************************************************************)
(* Claims on VCFManager (specification SpecVCF)                            *)
(***************************************************************************)
\* the records indexed on a contig
Indexed(chrom) ==
    IF chrom \in DOMAIN SVs
    THEN UNION { range(SVs[chrom][i][2]) : i \in 1..Len(SVs[chrom]) }
    ELSE {}

Max(a, b) == IF a >= b THEN a ELSE b

Min(a, b) == IF a <= b THEN a ELSE b

\* the closed intervals [sv.pos, sv.end] and [start, end] share a coordinate
Intersects(sv, start, end) == Max(sv.pos, start) <= Min(sv.end, end)

Extents(svs) == { <<sv.pos, sv.end>> : sv \in svs }

\* C9: get_svs_in_range(chrom, start, end) without a sample returns exactly
\* the records indexed on chrom whose interval [pos, end] intersects
\* [start, end]: none that does not intersect, and none is omitted by the
\* scan stopping at the first position greater than end.
C9_ReturnsIntersecting ==
    (vcf_call.op = "get_svs_in_range" /\ vcf_call.args.sample = None) =>
        LET q == vcf_call.args
        IN  range(vcf_call.ret) =
                { sv \in Indexed(q.chrom) : Intersects(sv, q.start, q.end) }

\* C9 witness: calls at 500-1500, 1800-1900 and 3000-3100 on contig 1, asked
\* for [1000, 2000]: the first two are returned and the scan stopped before
\* position 3000.
C9_Witness ==
    /\ vcf_call.op = "get_svs_in_range"
    /\ vcf_call.args = [chrom |-> "1", start |-> 1000, end |-> 2000, sample |-> None]
    /\ "1" \in DOMAIN SVs
    /\ Extents(Indexed("1")) = { <<500, 1500>>, <<1800, 1900>>, <<3000, 3100>> }
    /\ positions["1"] = <<500, 1800, 3000>>
    /\ Extents(range(vcf_call.ret)) = { <<500, 1500>>, <<1800, 1900>> }

LinesAt(chrom, pos) ==
    IF chrom \in DOMAIN SVs /\ has_key(SVs[chrom], pos)
    THEN LET l == get_item(SVs[chrom], pos) IN [j \in 1..Len(l) |-> l[j].line]
    ELSE <<>>

Occurrences(q, x) == { j \in 1..Len(q) : q[j] = x }

Ascending(q) == \A i, j \in 1..Len(q) : i < j => q[i] < q[j]

\* C15: after set_svs every accepted record is once in the list at
\* SVs[chrom][pos], the records of the record loop that share a position are
\* in line order, every translocation is also in the list under its second
\* contig at its second-contig position, and positions[chrom] is the
\* ascending list of the position keys of SVs[chrom].
C15_IndexComplete ==
    vcf_pc = "ready" =>
        /\ \A n \in 1..Len(vcf_lines) :
              LET parsed == parse_sv(vcf_lines[n], n)
              IN  parsed # <<>> =>
                    LET sv == parsed[1]
                    IN  /\ Cardinality(Occurrences(LinesAt(sv.chrom, sv.pos), n)) = 1
                        /\ sv.svtype = "TRA" =>
                              Occurrences(LinesAt(sv.chr2, sv.chr2_pos[1]), n) # {}
        /\ \A chrom \in DOMAIN SVs : \A i, j \in 1..Len(SVs[chrom]) :
              LET l == SVs[chrom][i][2]
              IN  \A x, y \in 1..Len(l) :
                     (x < y /\ l[x].svtype # "BND" /\ l[y].svtype # "BND") =>
                         l[x].line < l[y].line
        /\ DOMAIN positions = DOMAIN SVs
        /\ \A chrom \in DOMAIN SVs :
              /\ Ascending(positions[chrom])
              /\ range(positions[chrom]) = range(keys(SVs[chrom]))

\* the line numbers of the objects in the position lists of the collection
IndexedLines ==
    UNION { UNION { { SVs[chrom][i][2][j].line : j \in 1..Len(SVs[chrom][i][2]) } :
                    i \in 1..Len(SVs[chrom]) } : chrom \in DOMAIN SVs }

UnmatchedBreakend(line) ==
    /\ line.svtype = "BND"
    /\ ~right_fwd(line.alt) /\ ~right_rvs(line.alt)
    /\ ~left_fwd(line.alt) /\ ~left_rvs(line.alt)

\* C17: a breakend line whose ALT matches none of the four orientation
\* classes is skipped: parse_sv hands on no object for it and it is in no
\* position list of the collection; the other lines of the stream are
\* indexed as they are without it.
C17_UnmatchedSkipped ==
    vcf_pc = "ready" =>
        \A n \in 1..Len(vcf_lines) : UnmatchedBreakend(vcf_lines[n]) =>
            /\ parse_sv(vcf_lines[n], n) = <<>>
            /\ n \notin IndexedLines

(***************************************************************************)
(* Claims on get_sam_stats (specification SpecSam)                         *)
(***************************************************************************)
\* a step that read a full line whose CIGAR is outside the clip/op grammar
ReadMalformed ==
    /\ n_lines' = n_lines + 1
    /\ ~too_few_fields(sam_line'[1])
    /\ cigar_clip(sam_line'[1].cigar) = {}

\* C18: a line whose CIGAR does not match the clip/op grammar is dropped and
\* the stream goes on: the accumulators are as before the line and
\* get_sam_stats is still reading, so later lines are processed.
C18_MalformedCigarDropped ==
    [][ReadMalformed => sam_pc' = "reading" /\ align' = align]_vars

(***************************************************************************)
(* Claims on SamEntry.get_aligned_pos (specification SpecCigar)            *)
(***************************************************************************)
\* the summed lengths of the reference-consuming operations M, D, X, =, N
RECURSIVE RefLength(_)
RefLength(ops) ==
    IF ops = <<>> THEN 0
    ELSE (IF Head(ops)[2] \in {"M", "D", "X", "=", "N"} THEN Head(ops)[1] ELSE 0)
         + RefLength(Tail(ops))

\* C11: for a CIGAR of the clip/op grammar, aligned_left is the position plus
\* the leading soft clip (0 if absent) and aligned_right is aligned_left plus
\* the summed lengths of the reference-consuming operations, whatever the
\* clips and insertions; aligned_right >= aligned_left.
C11_AlignedSpan ==
    cigar_out # <<>> =>
        LET c == cigar_in[1].cigar
            out == cigar_out[1]
        IN  /\ ~out.raised
            /\ out.left = cigar_in[1].pos + c.ls
            /\ out.right = out.left + RefLength(c.ops)
            /\ out.right >= out.left

\* C11 witness: 10S40M5D10M5S at position 100 gives 110 and 165.
C11_Witness ==
    /\ cigar_out # <<>>
    /\ cigar_in[1].pos = 100
    /\ cigar_text(cigar_in[1].cigar) =
          <<"1", "0", "S", "4", "0", "M", "5", "D", "1", "0", "M", "5", "S">>
    /\ cigar_out[1].left = 110
    /\ cigar_out[1].right = 165

====
